---- MODULE Spec2Model ----
(***************************************************************************)
(* Model of rmp's synchronous MessagePack decoder                          *)
(* (rmp/src/sync/decode/mod.rs): the RmpRead byte source over a            *)
(* std::io::Read stream, read_marker, and the primitive decoders read_nil, *)
(* read_bool, read_int<T>, read_array_len, read_map_len, read_bin_len.     *)
(*                                                                         *)
(* A decode call is a small state machine: every call of the underlying    *)
(* Read::read is one step (it may deliver some bytes, report end of        *)
(* stream, be interrupted, or fail); everything the decoder computes       *)
(* between two reads happens in the step of the read that enables it.      *)
(*                                                                         *)
(* Machine integers are records [ty, val]: val is the little-endian byte   *)
(* image (val[1] is the least significant byte), Width(ty) bytes long.     *)
(***************************************************************************)
EXTENDS Integers, Sequences, FiniteSets, TLC

VARIABLES
    src,      \* the bytes the stream delivers, in order
    pos,      \* the source cursor: number of bytes consumed so far
    pc,       \* "idle" | "marker" | "data" | "exact" | "done"
    op,       \* the decoder being executed: [fn, T, n]
    start,    \* cursor when the current call started
    marker,   \* marker obtained by the current call (NoMarker before)
    buf,      \* destination buffer of the read_exact_buf in progress
    want,     \* length of that destination buffer
    intr,     \* interruptions (EINTR) the underlying read gave this call
    calls,    \* decode calls made on this source
    result    \* what the call returned (NoResult while running)

vars == <<src, pos, pc, op, start, marker, buf, want, intr, calls, result>>

----------------------------------------------------------------------------
(* Bounds *)

\* interruptions the transport may deliver during one call
MaxIntr == 2
\* largest destination buffer handed to a direct read_exact_buf call
MaxBuf == 2
\* decode calls made one after the other on the same source
MaxCalls == 2

----------------------------------------------------------------------------
(* Integer types *)

IntTypes == {"u8", "i8", "u16", "i16", "u32", "i32", "u64", "i64"}

Width(ty) ==
    CASE ty \in {"u8", "i8"} -> 1
      [] ty \in {"u16", "i16"} -> 2
      [] ty \in {"u32", "i32"} -> 4
      [] ty \in {"u64", "i64"} -> 8

Signed(ty) == ty \in {"i8", "i16", "i32", "i64"}

Fill(n, d) == [i \in 1..n |-> d]

Reverse(s) == [i \in 1..Len(s) |-> s[Len(s) + 1 - i]]

\* the value of type ty whose in-memory bytes are bytesLE
MkInt(ty, bytesLE) == [ty |-> ty, val |-> bytesLE]

NoInt == [ty |-> "unit", val |-> <<>>]

\* v < 0, for a machine integer
IsNegative(v) == Signed(v.ty) /\ v.val[Len(v.val)] >= 128

\* Rust's `v as ty`: truncation, or zero-/sign-extension by the source type
AsCast(v, ty) ==
    LET w0 == Len(v.val)
        w  == Width(ty)
    IN  MkInt(ty, IF w <= w0 THEN SubSeq(v.val, 1, w)
                  ELSE v.val \o Fill(w - w0, IF IsNegative(v) THEN 255 ELSE 0))

\* a <= b for two little-endian byte images of equal length, unsigned
RECURSIVE LeBytes(_, _)
LeBytes(a, b) ==
    IF Len(a) = 0 THEN TRUE
    ELSE LET n == Len(a)
         IN  IF a[n] # b[n] THEN a[n] < b[n]
             ELSE LeBytes(SubSeq(a, 1, n - 1), SubSeq(b, 1, n - 1))

\* a <= b as u64
LeU64(a, b) == LeBytes(AsCast(a, "u64").val, AsCast(b, "u64").val)

FlipTop(s) == [i \in 1..Len(s) |-> IF i = Len(s) THEN (s[i] + 128) % 256 ELSE s[i]]

\* a <= b as i64
LeI64(a, b) == LeBytes(FlipTop(AsCast(a, "i64").val), FlipTop(AsCast(b, "i64").val))

\* T::MAX and T::MIN
MaxOf(ty) ==
    MkInt(ty, IF Signed(ty) THEN Fill(Width(ty) - 1, 255) \o <<127>>
              ELSE Fill(Width(ty), 255))

MinOf(ty) ==
    MkInt(ty, IF Signed(ty) THEN Fill(Width(ty) - 1, 0) \o <<128>>
              ELSE Fill(Width(ty), 0))

----------------------------------------------------------------------------
(* Markers *)

NoMarker == [name |-> "none", val |-> 0]

Mk(name, val) == [name |-> name, val |-> val]

\* the markers of the bytes 0xc0 .. 0xdf, in order
FixedMarkers ==
    << "Null", "Reserved", "False", "True", "Bin8", "Bin16", "Bin32",
       "Ext8", "Ext16", "Ext32", "F32", "F64", "U8", "U16", "U32", "U64",
       "I8", "I16", "I32", "I64", "FixExt1", "FixExt2", "FixExt4", "FixExt8",
       "FixExt16", "Str8", "Str16", "Str32", "Array16", "Array32", "Map16",
       "Map32" >>

\* Marker::from_u8: the total classification of a first byte.  The payload of
\* FixNeg is the byte itself, read as an i8.
Marker_from_u8(n) ==
    CASE n < 128 -> Mk("FixPos", n)
      [] n >= 128 /\ n < 144 -> Mk("FixMap", n % 16)
      [] n >= 144 /\ n < 160 -> Mk("FixArray", n % 16)
      [] n >= 160 /\ n < 192 -> Mk("FixStr", n % 32)
      [] n >= 192 /\ n < 224 -> Mk(FixedMarkers[n - 191], 0)
      [] n >= 224 -> Mk("FixNeg", n)

----------------------------------------------------------------------------
(* Results *)

NoResult == [kind |-> "None", val |-> NoInt, marker |-> NoMarker, cause |-> ""]

Ok(v) == [kind |-> "Ok", val |-> v, marker |-> NoMarker, cause |-> ""]

OkMarker(m) == [kind |-> "Ok", val |-> NoInt, marker |-> m, cause |-> ""]

OkBool(b) == Ok([ty |-> "bool", val |-> <<IF b THEN 1 ELSE 0>>])

\* an error that wraps the I/O cause e
IoErr(kind, e) == [kind |-> kind, val |-> NoInt, marker |-> NoMarker, cause |-> e]

TypeMismatch(m) == [kind |-> "TypeMismatch", val |-> NoInt, marker |-> m, cause |-> ""]

OutOfRange == [kind |-> "OutOfRange", val |-> NoInt, marker |-> NoMarker, cause |-> ""]

----------------------------------------------------------------------------
(* num_traits::FromPrimitive for the primitive integer types *)

NoneOpt == [some |-> FALSE, val |-> NoInt]

Some(v) == [some |-> TRUE, val |-> v]

\* T::from_u8 .. T::from_i64 (the source type is the type of v): Some(v as T)
\* when v lies in T's range, None otherwise.  num_traits decides the range by
\* the sizes of the two types and by comparing v with T::MIN and T::MAX in a
\* 64-bit type.
FromPrimitive(T, v) ==
    LET S == v.ty
        fit ==
            CASE Signed(S) /\ Signed(T) ->
                    \/ Width(S) <= Width(T)
                    \/ LeI64(MinOf(T), v) /\ LeI64(v, MaxOf(T))
              [] Signed(S) /\ ~Signed(T) ->
                    /\ ~IsNegative(v)
                    /\ (Width(S) <= Width(T) \/ LeU64(v, MaxOf(T)))
              [] ~Signed(S) /\ Signed(T) ->
                    Width(S) < Width(T) \/ LeU64(v, MaxOf(T))
              [] OTHER ->
                    Width(S) <= Width(T) \/ LeU64(v, MaxOf(T))
    IN  IF fit THEN Some(AsCast(v, T)) ELSE NoneOpt

\* Option::ok_or(NumValueReadError::OutOfRange)
ok_or(opt) == IF opt.some THEN Ok(opt.val) ELSE OutOfRange

----------------------------------------------------------------------------
(* The byte source: results of read_exact_buf, and the readers built on it *)

IoOk(bytes) == [ok |-> TRUE, bytes |-> bytes, cause |-> ""]

IoFail(e) == [ok |-> FALSE, bytes |-> <<>>, cause |-> e]

\* mutant: the buffer taken in memory order (a little-endian read)
BigEndian_read_LE(ty, bytes) == MkInt(ty, bytes)

\* byteorder::BigEndian::read_<ty>: the first byte of the buffer is the most
\* significant byte of the value
BigEndian_read(ty, bytes) == MkInt(ty, Reverse(bytes))

\* mutant: the I/O error of a payload read reported as a marker read failure
read_data_AsMarkerErr(ty, io) ==
    IF io.ok THEN Ok(BigEndian_read(ty, io.bytes))
    ELSE IoErr("InvalidMarkerRead", io.cause)

\* read_data_u8 .. read_data_i64: read_exact_buf into a buffer of
\* size_of::<ty>() bytes, the I/O error mapped to InvalidDataRead
read_data(ty, io) ==
    IF io.ok THEN Ok(BigEndian_read(ty, io.bytes))
    ELSE IoErr("InvalidDataRead", io.cause)

\* mutant: the reserved byte 0xc1 refused instead of classified
read_marker_RejectReserved(io) ==
    IF io.ok /\ io.bytes[1] # 193 THEN OkMarker(Marker_from_u8(io.bytes[1]))
    ELSE IoErr("MarkerReadError", IF io.ok THEN "Other" ELSE io.cause)

\* RmpRead::read_u8 followed by Marker::from_u8; the I/O error becomes a
\* MarkerReadError
read_marker(io) ==
    IF io.ok THEN OkMarker(Marker_from_u8(io.bytes[1]))
    ELSE IoErr("MarkerReadError", io.cause)

\* the `?` on read_marker inside a value decoder:
\* From<MarkerReadError> for ValueReadError / NumValueReadError
FromMarkerReadError(e) == IoErr("InvalidMarkerRead", e.cause)

----------------------------------------------------------------------------
(* The decoders: what each does with the marker it read.  Ret(r): return r *)
(* without reading more; ReadData(ty, conv): call read_data_<ty> and        *)
(* convert its value.                                                       *)

Ret(r) == [kind |-> "ret", res |-> r, ty |-> "unit", conv |-> ""]

ReadData(ty, conv) == [kind |-> "data", res |-> NoResult, ty |-> ty, conv |-> conv]

read_nil(m) ==
    IF m.name = "Null" THEN Ret(Ok(NoInt)) ELSE Ret(TypeMismatch(m))

\* mutant: the reserved marker taken for false
read_bool_ReservedFalse(m) ==
    CASE m.name = "True" -> Ret(OkBool(TRUE))
      [] m.name \in {"False", "Reserved"} -> Ret(OkBool(FALSE))
      [] OTHER -> Ret(TypeMismatch(m))

read_bool(m) ==
    CASE m.name = "True" -> Ret(OkBool(TRUE))
      [] m.name = "False" -> Ret(OkBool(FALSE))
      [] OTHER -> Ret(TypeMismatch(m))

\* mutant: the I64 arm reads a 32-bit payload
read_int_I64Short(T, m) ==
    CASE m.name = "FixPos" -> Ret(ok_or(FromPrimitive(T, MkInt("u8", <<m.val>>))))
      [] m.name = "FixNeg" -> Ret(ok_or(FromPrimitive(T, MkInt("i8", <<m.val>>))))
      [] m.name = "U8" -> ReadData("u8", "from")
      [] m.name = "U16" -> ReadData("u16", "from")
      [] m.name = "U32" -> ReadData("u32", "from")
      [] m.name = "U64" -> ReadData("u64", "from")
      [] m.name = "I8" -> ReadData("i8", "from")
      [] m.name = "I16" -> ReadData("i16", "from")
      [] m.name = "I32" -> ReadData("i32", "from")
      [] m.name = "I64" -> ReadData("i32", "from")
      [] OTHER -> Ret(TypeMismatch(m))

read_int(T, m) ==
    CASE m.name = "FixPos" -> Ret(ok_or(FromPrimitive(T, MkInt("u8", <<m.val>>))))
      [] m.name = "FixNeg" -> Ret(ok_or(FromPrimitive(T, MkInt("i8", <<m.val>>))))
      [] m.name = "U8" -> ReadData("u8", "from")
      [] m.name = "U16" -> ReadData("u16", "from")
      [] m.name = "U32" -> ReadData("u32", "from")
      [] m.name = "U64" -> ReadData("u64", "from")
      [] m.name = "I8" -> ReadData("i8", "from")
      [] m.name = "I16" -> ReadData("i16", "from")
      [] m.name = "I32" -> ReadData("i32", "from")
      [] m.name = "I64" -> ReadData("i64", "from")
      [] OTHER -> Ret(TypeMismatch(m))

\* mutant: the Array16 arm reads a 32-bit length
read_array_len_Wide16(m) ==
    CASE m.name = "FixArray" -> Ret(Ok(AsCast(MkInt("u8", <<m.val>>), "u32")))
      [] m.name = "Array16" -> ReadData("u32", "as_u32")
      [] m.name = "Array32" -> ReadData("u32", "as_u32")
      [] OTHER -> Ret(TypeMismatch(m))

read_array_len(m) ==
    CASE m.name = "FixArray" -> Ret(Ok(AsCast(MkInt("u8", <<m.val>>), "u32")))
      [] m.name = "Array16" -> ReadData("u16", "as_u32")
      [] m.name = "Array32" -> ReadData("u32", "as_u32")
      [] OTHER -> Ret(TypeMismatch(m))

\* mutant: the Map32 arm missing
marker_to_len_NoMap32(m) ==
    CASE m.name = "FixMap" -> Ret(Ok(AsCast(MkInt("u8", <<m.val>>), "u32")))
      [] m.name = "Map16" -> ReadData("u16", "as_u32")
      [] OTHER -> Ret(TypeMismatch(m))

marker_to_len(m) ==
    CASE m.name = "FixMap" -> Ret(Ok(AsCast(MkInt("u8", <<m.val>>), "u32")))
      [] m.name = "Map16" -> ReadData("u16", "as_u32")
      [] m.name = "Map32" -> ReadData("u32", "as_u32")
      [] OTHER -> Ret(TypeMismatch(m))

read_map_len(m) == marker_to_len(m)

read_bin_len(m) ==
    CASE m.name = "Bin8" -> ReadData("u8", "as_u32")
      [] m.name = "Bin16" -> ReadData("u16", "as_u32")
      [] m.name = "Bin32" -> ReadData("u32", "as_u32")
      [] OTHER -> Ret(TypeMismatch(m))

\* the match of decoder o on the marker m
Dispatch(o, m) ==
    CASE o.fn = "read_nil" -> read_nil(m)
      [] o.fn = "read_bool" -> read_bool(m)
      [] o.fn = "read_int" -> read_int(o.T, m)
      [] o.fn = "read_array_len" -> read_array_len(m)
      [] o.fn = "read_map_len" -> read_map_len(m)
      [] o.fn = "read_bin_len" -> read_bin_len(m)

\* decoder o after its read_marker(rd)? returned mr
AfterMarker(o, mr) ==
    IF mr.kind = "Ok" THEN Dispatch(o, mr.marker)
    ELSE Ret(FromMarkerReadError(mr))

\* decoder o after the read_data_<ty>()? of its match arm returned dr:
\* T::from_<ty>(..) and ok_or for read_int, `as u32` for the lengths
AfterData(o, p, dr) ==
    IF dr.kind # "Ok" THEN dr
    ELSE IF p.conv = "from" THEN ok_or(FromPrimitive(o.T, dr.val))
    ELSE Ok(AsCast(dr.val, "u32"))

----------------------------------------------------------------------------
(* The inputs *)

\* payloads at the boundaries of the integer widths, most significant byte first
Payloads1 == { <<0>>, <<127>>, <<128>>, <<255>> }

Payloads2 == { <<1, 44>>, <<0, 128>>, <<127, 255>>, <<128, 0>>, <<255, 127>>,
               <<255, 255>> }

Payloads4 == { <<0, 0, 1, 44>>, <<0, 1, 0, 0>>, <<127, 255, 255, 255>>,
               <<128, 0, 0, 0>>, <<255, 255, 127, 255>>, <<255, 255, 255, 255>> }

Payloads8 == { <<0, 0, 0, 0, 0, 0, 1, 44>>, <<0, 0, 0, 1, 0, 0, 0, 0>>,
               <<127, 255, 255, 255, 255, 255, 255, 255>>,
               <<128, 0, 0, 0, 0, 0, 0, 0>>,
               <<255, 255, 255, 255, 127, 255, 255, 255>>,
               <<255, 255, 255, 255, 255, 255, 255, 255>> }

\* first bytes that announce a payload of 1, 2, 4, 8 bytes to some decoder
\* here: Bin8 U8 I8; Bin16 U16 I16 Array16 Map16; Bin32 U32 I32 Array32 Map32;
\* U64 I64
Lead1 == {196, 204, 208}
Lead2 == {197, 205, 209, 220, 222}
Lead4 == {198, 206, 210, 221, 223}
Lead8 == {207, 211}

\* The streams: every first byte followed by one more byte, the doc example
\* [0xcd, 0x01, 0x2c], and every complete header or integer at the width
\* boundaries, each followed by one more value (nil).
Sources ==
    { <<b, 44>> : b \in 0..255 }
    \cup { <<205, 1, 44>> }
    \cup { <<b>> \o p \o <<192>> : b \in Lead1, p \in Payloads1 }
    \cup { <<b>> \o p \o <<192>> : b \in Lead2, p \in Payloads2 }
    \cup { <<b>> \o p \o <<192>> : b \in Lead4, p \in Payloads4 }
    \cup { <<b>> \o p \o <<192>> : b \in Lead8, p \in Payloads8 }

NoOp == [fn |-> "none", T |-> "-", n |-> 0]

\* the calls a caller can make
Ops ==
    [fn : {"read_marker", "read_nil", "read_bool", "read_array_len",
           "read_map_len", "read_bin_len"}, T : {"-"}, n : {0}]
    \cup [fn : {"read_int"}, T : IntTypes, n : {0}]
    \cup [fn : {"read_exact_buf"}, T : {"-"}, n : 0..MaxBuf]

Min(a, b) == IF a <= b THEN a ELSE b

----------------------------------------------------------------------------
(* The state machine *)

Init ==
    /\ src \in Sources
    /\ pos = 0
    /\ pc = "idle"
    /\ op = NoOp
    /\ start = 0
    /\ marker = NoMarker
    /\ buf = <<>>
    /\ want = 0
    /\ intr = 0
    /\ calls = 0
    /\ result = NoResult

Reading == pc \in {"marker", "data", "exact"}

\* The caller invokes decoder o on the source, at its current position.
\* Every decoder starts with read_marker, that is read_exact_buf on a buffer
\* of one byte; read_exact on an empty buffer returns Ok without reading.
Call(o) ==
    /\ pc \in {"idle", "done"}
    /\ calls < MaxCalls
    /\ calls' = calls + 1
    /\ op' = o
    /\ start' = pos
    /\ marker' = NoMarker
    /\ buf' = <<>>
    /\ intr' = 0
    /\ IF o.fn = "read_exact_buf"
       THEN /\ want' = o.n
            /\ IF o.n = 0
               THEN pc' = "done" /\ result' = Ok(NoInt)
               ELSE pc' = "exact" /\ result' = NoResult
       ELSE /\ want' = 1
            /\ pc' = "marker"
            /\ result' = NoResult
    /\ UNCHANGED <<src, pos>>

\* The read_exact_buf in progress returned io: the decoder runs on to its
\* next read_exact_buf or to its return.
Resume(io) ==
    CASE pc = "exact" ->
            /\ pc' = "done"
            /\ result' = IF io.ok THEN Ok(NoInt) ELSE IoErr("Io", io.cause)
            /\ UNCHANGED <<marker, want>>
      [] pc = "marker" /\ op.fn = "read_marker" ->
            /\ pc' = "done"
            /\ result' = read_marker(io)
            /\ marker' = read_marker(io).marker
            /\ UNCHANGED want
      [] pc = "marker" /\ op.fn # "read_marker" ->
            LET mr == read_marker(io)
                p  == AfterMarker(op, mr)
            IN  /\ marker' = mr.marker
                /\ IF p.kind = "ret"
                   THEN pc' = "done" /\ result' = p.res /\ UNCHANGED want
                   ELSE pc' = "data" /\ want' = Width(p.ty) /\ UNCHANGED result
      [] pc = "data" ->
            LET p == Dispatch(op, marker)
            IN  /\ pc' = "done"
                /\ result' = AfterData(op, p, read_data(p.ty, io))
                /\ UNCHANGED <<marker, want>>

\* mutant: every read is handed the whole buffer, not the part still empty
ReadOk_WholeBuffer(k) ==
    /\ Reading
    /\ k \in 1..Min(want, Len(src) - pos)
    /\ pos' = pos + k
    /\ LET b == buf \o SubSeq(src, pos + 1, pos + k)
       IN  IF Len(b) < want
           THEN buf' = b /\ UNCHANGED <<pc, marker, want, result>>
           ELSE IF /\ pc = "marker"
                   /\ op.fn # "read_marker"
                   /\ AfterMarker(op, read_marker(IoOk(b))).kind = "data"
           THEN buf' = <<>> /\ Resume(IoOk(b))
           ELSE buf' = b /\ Resume(IoOk(b))
    /\ UNCHANGED <<src, op, start, intr, calls>>

\* std::io::Read::read_exact, one iteration of its loop per step.
\* The underlying read returned Ok(k), k > 0: the k bytes are in the buffer
\* and consumed; read_exact returns Ok(()) once the buffer is full.
ReadOk(k) ==
    /\ Reading
    /\ k \in 1..Min(want - Len(buf), Len(src) - pos)
    /\ pos' = pos + k
    /\ LET b == buf \o SubSeq(src, pos + 1, pos + k)
       IN  IF Len(b) < want
           THEN buf' = b /\ UNCHANGED <<pc, marker, want, result>>
           ELSE IF /\ pc = "marker"
                   /\ op.fn # "read_marker"
                   /\ AfterMarker(op, read_marker(IoOk(b))).kind = "data"
           THEN buf' = <<>> /\ Resume(IoOk(b))
           ELSE buf' = b /\ Resume(IoOk(b))
    /\ UNCHANGED <<src, op, start, intr, calls>>

\* The underlying read returned Ok(0), the end of the stream, with the buffer
\* not yet full: read_exact returns UnexpectedEof.
ReadZero ==
    /\ Reading
    /\ pos = Len(src)
    /\ Resume(IoFail("UnexpectedEof"))
    /\ UNCHANGED <<src, pos, op, start, buf, intr, calls>>

\* mutant: the interruption returned to the caller like any other error
ReadInterrupted_Surfaces ==
    /\ Reading
    /\ Resume(IoFail("Interrupted"))
    /\ UNCHANGED <<src, pos, op, start, buf, intr, calls>>

\* The underlying read returned ErrorKind::Interrupted: the loop goes round.
ReadInterrupted ==
    /\ Reading
    /\ intr < MaxIntr
    /\ intr' = intr + 1
    /\ UNCHANGED <<src, pos, pc, op, start, marker, buf, want, calls, result>>

\* The underlying read returned any other error: read_exact returns it.
ReadFault ==
    /\ Reading
    /\ Resume(IoFail("Other"))
    /\ UNCHANGED <<src, pos, op, start, buf, intr, calls>>

Next ==
    \/ \E o \in Ops : Call(o)
    \/ \E k \in 1..8 : ReadOk(k)
    \/ ReadZero
    \/ ReadInterrupted
    \/ ReadFault

Spec == Init /\ [][Next]_vars

----------------------------------------------------------------------------
(* Vocabulary of the properties: the wire format, stated on bytes *)

Done == pc = "done"

\* the first byte of the value the current call started at
FirstByte == src[start + 1]

\* the call obtained its marker byte
GotMarker == pos > start

ValueDecoders == {"read_nil", "read_bool", "read_int", "read_array_len",
                  "read_map_len", "read_bin_len"}

LenDecoders == {"read_array_len", "read_map_len", "read_bin_len"}

\* first bytes of the integer family: fixints, u8..u64, i8..i64
IntFamily == (0..127) \cup (204..211) \cup (224..255)

\* first bytes each decoder accepts
Accepts(fn) ==
    CASE fn = "read_nil" -> {192}
      [] fn = "read_bool" -> {194, 195}
      [] fn = "read_int" -> IntFamily
      [] fn = "read_array_len" -> (144..159) \cup {220, 221}
      [] fn = "read_map_len" -> (128..143) \cup {222, 223}
      [] fn = "read_bin_len" -> {196, 197, 198}

\* payload bytes that follow first byte b of an integer or of a length header
PayloadLen(b) ==
    CASE b \in {196, 204, 208} -> 1
      [] b \in {197, 205, 209, 220, 222} -> 2
      [] b \in {198, 206, 210, 221, 223} -> 4
      [] b \in {207, 211} -> 8
      [] OTHER -> 0

\* size class of a header's first byte
SizeClass(b) ==
    CASE b \in 128..159 -> "inline"
      [] b = 196 -> "8"
      [] b \in {197, 220, 222} -> "16"
      [] b \in {198, 221, 223} -> "32"
      [] OTHER -> "none"

\* Mathematical integers: [neg, mag], mag the base-256 digits of the
\* magnitude, least significant first, without leading zero digits.
RECURSIVE Norm(_)
Norm(d) ==
    IF Len(d) = 0 \/ d[Len(d)] # 0 THEN d ELSE Norm(SubSeq(d, 1, Len(d) - 1))

RECURSIVE AddOne(_)
AddOne(d) ==
    IF Len(d) = 0 THEN <<>>
    ELSE IF d[1] < 255 THEN <<d[1] + 1>> \o Tail(d)
    ELSE <<0>> \o AddOne(Tail(d))

\* the number whose two's-complement (signed) or plain binary image is d
NumLE(d, signed) ==
    IF signed /\ Len(d) > 0 /\ d[Len(d)] >= 128
    THEN [neg |-> TRUE, mag |-> Norm(AddOne([i \in 1..Len(d) |-> 255 - d[i]]))]
    ELSE [neg |-> FALSE, mag |-> Norm(d)]

\* the number a big-endian byte string encodes
NumBE(bytes, signed) == NumLE(Reverse(bytes), signed)

\* the number held by a machine integer
NumOf(v) == NumLE(v.val, Signed(v.ty))

\* x lies in the range of integer type T
InRange(x, T) ==
    LET w == Width(T)
        n == Len(x.mag)
    IN  IF ~Signed(T) THEN ~x.neg /\ n <= w
        ELSE \/ n < w
             \/ n = w /\ x.mag[w] < 128
             \/ x.neg /\ x.mag = Fill(w - 1, 0) \o <<128>>

\* the integer encoded at the start of the current call, all bytes present
EncodedInt ==
    IF PayloadLen(FirstByte) = 0
    THEN NumBE(<<FirstByte>>, FirstByte >= 224)
    ELSE NumBE(SubSeq(src, start + 2, start + 1 + PayloadLen(FirstByte)),
               FirstByte \in 208..211)

IoCauses == {"UnexpectedEof", "Other"}

----------------------------------------------------------------------------
(* Properties *)

C2_ReadIntValue ==
    (/\ Done /\ op.fn = "read_int" /\ GotMarker
     /\ FirstByte \in IntFamily
     /\ pos = start + 1 + PayloadLen(FirstByte))
        => /\ IF InRange(EncodedInt, op.T)
              THEN /\ result.kind = "Ok"
                   /\ result.val.ty = op.T
                   /\ Len(result.val.val) = Width(op.T)
                   /\ NumOf(result.val) = EncodedInt
              ELSE result = OutOfRange
           /\ (EncodedInt.neg /\ ~Signed(op.T)) => result = OutOfRange
           /\ SubSeq(src, start + 1, pos) = <<205, 1, 44>> =>
                /\ op.T = "u8" => result = OutOfRange
                /\ op.T \in {"u16", "i16", "u32", "i32", "u64", "i64"} =>
                     result = Ok(MkInt(op.T, <<44, 1>> \o Fill(Width(op.T) - 2, 0)))

\* [0xcd, 0x01, 0x2c] read as an i16 gave 300
C2_Witness ==
    /\ Done /\ op.fn = "read_int" /\ op.T = "i16"
    /\ SubSeq(src, start + 1, pos) = <<205, 1, 44>>
    /\ result = Ok(MkInt("i16", <<44, 1>>))

\* C3: read_int returns OutOfRange when the marker read is not an integer
\* marker.
C3_NonIntegerIsOutOfRange ==
    (Done /\ op.fn = "read_int" /\ GotMarker /\ FirstByte \notin IntFamily)
        => result = OutOfRange

\* C4 as stated: the three length decoders accept only markers of the size
\* classes inline, 16-bit and 32-bit.
C4_ThreeClassesInline ==
    (Done /\ op.fn \in LenDecoders /\ GotMarker /\ result.kind # "TypeMismatch")
        => SizeClass(FirstByte) \in {"inline", "16", "32"}

\* C4 amended: read_array_len accepts exactly FixArray, Array16, Array32 and
\* read_map_len exactly FixMap, Map16, Map32 (inline, 16-bit, 32-bit), while
\* read_bin_len accepts exactly Bin8, Bin16, Bin32 (8-bit, 16-bit, 32-bit
\* length prefix, no inline form); every other marker is rejected.
C4_AcceptedMarkers ==
    (Done /\ op.fn \in LenDecoders /\ GotMarker)
        => /\ (result.kind # "TypeMismatch") <=> (FirstByte \in Accepts(op.fn))
           /\ (result.kind # "TypeMismatch") =>
                SizeClass(FirstByte) \in
                    (IF op.fn = "read_bin_len" THEN {"8", "16", "32"}
                     ELSE {"inline", "16", "32"})

\* read_bin_len accepted the 8-bit form
C4_Witness ==
    /\ Done /\ op.fn = "read_bin_len" /\ GotMarker /\ FirstByte = 196
    /\ result.kind = "Ok" /\ pos = start + 2

\* C5: a value decoder whose source failed before the marker byte was
\* obtained returns InvalidMarkerRead (read_marker itself: MarkerReadError)
\* wrapping the cause; one whose marker was accepted and whose payload could
\* not all be read returns InvalidDataRead wrapping the cause; neither
\* happens in any other case, and neither carries a value.
C5_ErrorLayers ==
    /\ (Done /\ op.fn \in ValueDecoders) =>
         /\ (result.kind = "InvalidMarkerRead") <=> (pos = start)
         /\ (result.kind = "InvalidDataRead") <=>
              /\ GotMarker
              /\ FirstByte \in Accepts(op.fn)
              /\ pos < start + 1 + PayloadLen(FirstByte)
         /\ result.kind \in {"InvalidMarkerRead", "InvalidDataRead"} =>
              /\ result.cause \in IoCauses
              /\ pos < Len(src) => result.cause = "Other"
              /\ result.val = NoInt
         /\ result.kind \notin {"MarkerReadError", "Io"}
    /\ (Done /\ op.fn = "read_marker") =>
         /\ (result.kind = "MarkerReadError") <=> (pos = start)
         /\ result.kind = "MarkerReadError" => result.cause \in IoCauses
         /\ result.kind \in {"MarkerReadError", "Ok"}

\* a 32-bit integer was cut short by the end of the stream
C5_Witness ==
    /\ Done /\ op.fn = "read_int" /\ GotMarker /\ FirstByte = 206
    /\ result = IoErr("InvalidDataRead", "UnexpectedEof")
    /\ pos = start + 2 /\ pos = Len(src)

\* what decoder o returns, and where it leaves the cursor, on the bytes s
\* from position p when the transport neither interrupts nor fails
Uninterrupted(o, s, p) ==
    IF o.fn = "read_exact_buf"
    THEN IF p + o.n <= Len(s)
         THEN [res |-> Ok(NoInt), pos |-> p + o.n]
         ELSE [res |-> IoErr("Io", "UnexpectedEof"), pos |-> Len(s)]
    ELSE IF p >= Len(s)
    THEN [res |-> IF o.fn = "read_marker"
                  THEN IoErr("MarkerReadError", "UnexpectedEof")
                  ELSE IoErr("InvalidMarkerRead", "UnexpectedEof"),
          pos |-> p]
    ELSE IF o.fn = "read_marker"
    THEN [res |-> OkMarker(Marker_from_u8(s[p + 1])), pos |-> p + 1]
    ELSE LET pl == Dispatch(o, Marker_from_u8(s[p + 1]))
             e  == p + 1 + Width(pl.ty)
         IN  IF pl.kind = "ret" THEN [res |-> pl.res, pos |-> p + 1]
             ELSE IF e <= Len(s)
             THEN [res |-> AfterData(o, pl, read_data(pl.ty, IoOk(SubSeq(s, p + 2, e)))),
                   pos |-> e]
             ELSE [res |-> IoErr("InvalidDataRead", "UnexpectedEof"), pos |-> Len(s)]

\* the underlying read returns
ReadReturns ==
    \/ \E k \in 1..8 : ReadOk(k)
    \/ ReadZero
    \/ ReadInterrupted
    \/ ReadFault

\* the streams of the fair specification: a 16-bit integer, and an 8-bit
\* binary header followed by one more value
LiveSources == { <<205, 1, 44>>, <<196, 255, 192>> }

InitLive == Init /\ src \in LiveSources

\* every call of the underlying (blocking) read eventually returns
FairSpec == InitLive /\ [][Next]_vars /\ WF_vars(ReadReturns)

C6_Transparent ==
    /\ result.cause \in IoCauses \cup {""}
    /\ (Done /\ result.cause # "Other") =>
         /\ result = Uninterrupted(op, src, start).res
         /\ pos = Uninterrupted(op, src, start).pos

\* C6: interruptions of the underlying read are retried inside read_exact:
\* an interruption changes nothing but the count of interruptions, the call
\* returns what it returns on an uninterrupted transport and consumes the
\* same bytes, no result carries an interruption, and a running call
\* eventually returns.
C6_InterruptionsRetried ==
    /\ []C6_Transparent
    /\ [][intr' > intr => UNCHANGED <<src, pos, pc, op, start, marker, buf, want, result>>]_vars
    /\ (Reading ~> Done)

\* a 16-bit integer was decoded although the read was interrupted twice
C6_Witness ==
    /\ Done /\ op.fn = "read_int" /\ op.T = "u16" /\ GotMarker /\ FirstByte = 205
    /\ intr >= 2 /\ result = Ok(MkInt("u16", <<44, 1>>)) /\ pos = start + 3

\* C7 as stated: read_exact_buf either fills its n bytes and advances the
\* cursor by n, or fails with the cursor where it was before the call.
C7_Atomic ==
    (Done /\ op.fn = "read_exact_buf") =>
        \/ /\ result.kind = "Ok"
           /\ pos = start + op.n
           /\ buf = SubSeq(src, start + 1, start + op.n)
        \/ /\ result.kind # "Ok"
           /\ pos = start

\* C7 amended: read_exact_buf either fills its n bytes, in stream order, and
\* advances the cursor by exactly n, or fails with the I/O cause after
\* consuming fewer than n bytes, which stay consumed: the cursor is not
\* moved back.
C7_AllOrLoss ==
    (Done /\ op.fn = "read_exact_buf") =>
        \/ /\ result = Ok(NoInt)
           /\ pos = start + op.n
           /\ buf = SubSeq(src, start + 1, start + op.n)
        \/ /\ result.kind = "Io"
           /\ result.cause \in IoCauses
           /\ start <= pos /\ pos < start + op.n
           /\ buf = SubSeq(src, start + 1, pos)

\* a failed read_exact_buf left the cursor one byte further
C7_Witness ==
    /\ Done /\ op.fn = "read_exact_buf" /\ op.n = 2
    /\ result = IoErr("Io", "UnexpectedEof")
    /\ pos = start + 1

\* C8: read_marker on a stream that supplies one more byte returns Ok for
\* every byte value, with the marker that byte alone determines, and
\* consumes exactly that byte; it never consumes more than one byte and
\* fails only without consuming.
C8_ReadMarkerTotal ==
    (Done /\ op.fn = "read_marker") =>
        /\ pos <= start + 1
        /\ (start < Len(src) /\ result.cause # "Other") => result.kind = "Ok"
        /\ result.kind = "Ok" <=> pos = start + 1
        /\ result.kind = "Ok" =>
             /\ result = OkMarker(Marker_from_u8(FirstByte))
             /\ result.marker = marker
             /\ result.marker.name # "none"
             /\ FirstByte <= 127 => result.marker = Mk("FixPos", FirstByte)
             /\ FirstByte >= 224 => result.marker = Mk("FixNeg", FirstByte)
             /\ FirstByte = 192 => result.marker = Mk("Null", 0)
             /\ FirstByte = 193 => result.marker = Mk("Reserved", 0)

\* the reserved byte 0xc1 was classified, not refused
C8_Witness ==
    /\ Done /\ op.fn = "read_marker" /\ GotMarker /\ FirstByte = 193
    /\ result = OkMarker(Mk("Reserved", 0))
    /\ pos = start + 1 /\ Len(src) > pos

\* C9: a successful read_array_len or read_map_len has consumed 1, 3 or 5
\* bytes and a successful read_bin_len 2, 3 or 5, by the form of the marker;
\* the u32 returned is the inline count or the big-endian length field,
\* whatever follows in the stream: an accepted marker whose length field was
\* read never fails, and nothing after the header is consumed.
C9_LengthUnvalidated ==
    (Done /\ op.fn \in LenDecoders /\ GotMarker /\ FirstByte \in Accepts(op.fn)) =>
        /\ result.kind \in {"Ok", "InvalidDataRead"}
        /\ pos = start + 1 + PayloadLen(FirstByte) => result.kind = "Ok"
        /\ result.kind = "Ok" =>
             /\ pos = start + 1 + PayloadLen(FirstByte)
             /\ pos - start \in (IF op.fn = "read_bin_len" THEN {2, 3, 5} ELSE {1, 3, 5})
             /\ result.val.ty = "u32"
             /\ Len(result.val.val) = 4
             /\ NumOf(result.val) =
                  (IF SizeClass(FirstByte) = "inline"
                   THEN NumBE(<<FirstByte % 16>>, FALSE)
                   ELSE NumBE(SubSeq(src, start + 2, pos), FALSE))

\* an array header claiming 2^32 - 1 elements was accepted with one byte left
C9_Witness ==
    /\ Done /\ op.fn = "read_array_len" /\ GotMarker /\ FirstByte = 221
    /\ result = Ok(MkInt("u32", <<255, 255, 255, 255>>))
    /\ pos = start + 5 /\ Len(src) - pos = 1

\* C10: a read_int that got all its bytes (it returned Ok or OutOfRange) has
\* consumed 1 byte for a fixint and 1 + 1, 2, 4 or 8 bytes for the 8-, 16-,
\* 32- and 64-bit markers, whatever T is; no read_int consumes more than 9
\* bytes, and one that rejects the marker consumes 1.
C10_ReadIntConsumption ==
    (Done /\ op.fn = "read_int") =>
        /\ pos - start <= 9
        /\ result.kind \in {"Ok", "OutOfRange"} =>
             /\ FirstByte \in IntFamily
             /\ pos = start + 1 + PayloadLen(FirstByte)
        /\ result.kind = "TypeMismatch" => pos = start + 1

\* a 64-bit integer did not fit a u8: the cursor is on the value after it
C10_Witness ==
    /\ Done /\ op.fn = "read_int" /\ op.T = "u8" /\ GotMarker /\ FirstByte = 207
    /\ result = OutOfRange
    /\ pos = start + 9 /\ pos < Len(src) /\ src[pos + 1] = 192

====
